---- MODULE Spec2Model ----
(***************************************************************************)
(* Sliding-window rate limiter of src/app/rate_limiter.py (RateLimiter).   *)
(* Callers are threads (FastAPI runs the synchronous rate_limit_dependency *)
(* in a thread pool); each call reads time.time() and derives the key      *)
(* BEFORE taking self.lock, then prunes, decides and returns under the     *)
(* lock.  Times are integers.                                              *)
(***************************************************************************)
EXTENDS Integers, Sequences, FiniteSets, TLC

\* ---------------------------------------------------------------- bounds
MaxTime == 3
MaxCapacity == 2
MaxWindow == 2

Threads == {"t1", "t2"}
NoThread == "none"
ClientIds == {"", "c1"}
Ops == {"admit", "status"}
Times == 0..MaxTime

VARIABLES
    max_requests,     \* self.max_requests
    window_seconds,   \* self.window_seconds
    requests,         \* self.requests: key -> deque of timestamps (defaultdict)
    lock,             \* holder of self.lock, or NoThread
    clock,            \* what time.time() returns now
    pc,               \* per thread: position in is_allowed / get_rate_limit_info
    op,               \* per thread: which method it is running
    client_id,        \* per thread: argument client_id
    current_time,     \* per thread: local current_time
    result,           \* per thread: the value its call is about to return
    snapshot,         \* history: self.requests as the lock holder found it
    waiting,          \* history: threads that had read the clock and stood before the lock when the holder took it
    race,             \* history: the admit that held the lock last, when another admit for its key stood before the lock
    last_denied,      \* history: key -> reset_time of its latest denial, until its next allowed admission
    admitted,         \* history: key -> timestamp -> number of allowed admissions recorded with it
    last_status,      \* history: key -> remaining of its latest Status, until its next Admit ("monotone": its next allowed Admit)
    pre_status,       \* history: key -> its window as the latest Admit for it left it
    script,           \* history: number of calls of the scripted caller that have returned
    http,             \* per thread: the HTTP request of src/app/api.py it is serving
    observe           \* which history is being recorded ("none": none of it)

vars == <<max_requests, window_seconds, requests, lock, clock, pc, op, client_id,
          current_time, result, snapshot, waiting, race, last_denied, admitted,
          last_status, pre_status, script, http, observe>>

config == <<max_requests, window_seconds, observe>>
locals == <<op, client_id, current_time>>
history == <<snapshot, waiting, race>>
notes == <<last_status, pre_status, script>>

\* ------------------------------------------------------------ pure parts

\* hashlib.md5(client_id.encode()).hexdigest() on the identities of ClientIds
_get_client_key(id) ==
    CASE id = ""   -> "d41d8cd98f00b204e9800998ecf8427e"
      [] id = "c1" -> "a9f7e97965d6cf799a529102a973b8b9"
      [] id = "c2" -> "9ab62b5ef34a985438bfdf7ee0102229"

Keys == {_get_client_key(id) : id \in ClientIds}

EmptyStore == [k \in {} |-> <<>>]

\* defaultdict(deque).__getitem__: a missing key is inserted with an empty deque
GetItem(store, k) == IF k \in DOMAIN store THEN store ELSE store @@ (k :> <<>>)

\* the deque of k without inserting it (what a reader that does not touch the store sees)
Window(store, k) == IF k \in DOMAIN store THEN store[k] ELSE <<>>

\* StillStale with the boundary entry (exactly window_seconds old) counted as stale
StillStaleInclusive(w, now, win) == w /= <<>> /\ Head(w) <= now - win

\* the while condition of _clean_old_requests
StillStale(w, now, win) == w /= <<>> /\ Head(w) < now - win

\* the whole loop of _clean_old_requests on one deque
RECURSIVE PruneFront(_, _, _)
PruneFront(w, now, win) ==
    IF StillStale(w, now, win) THEN PruneFront(Tail(w), now, win) ELSE w

\* UnderLimit letting a full window through
UnderLimitInclusive(w, cap) == Len(w) <= cap

\* the admission test of is_allowed
UnderLimit(w, cap) == Len(w) < cap

NoResult == [kind |-> "none", remaining |-> 0, reset_time |-> 0, limit |-> 0]

\* AllowedInfo with remaining measured before the append
AllowedInfoBeforeAppend(w, now, cap, win) ==
    [kind |-> "allowed", remaining |-> cap - (Len(w) - 1), reset_time |-> now + win,
     limit |-> cap]

\* return True, {...}: w is the deque after the append
AllowedInfo(w, now, cap, win) ==
    [kind |-> "allowed", remaining |-> cap - Len(w), reset_time |-> now + win, limit |-> cap]

\* DeniedInfo with the reset time taken from the newest entry
DeniedInfoNewest(w, cap, win) ==
    IF w = <<>>
    THEN [kind |-> "error", remaining |-> 0, reset_time |-> 0, limit |-> 0]
    ELSE [kind |-> "denied", remaining |-> 0, reset_time |-> w[Len(w)] + win, limit |-> cap]

\* return False, {...}: self.requests[client_key][0] raises IndexError on an empty deque
DeniedInfo(w, cap, win) ==
    IF w = <<>>
    THEN [kind |-> "error", remaining |-> 0, reset_time |-> 0, limit |-> 0]
    ELSE [kind |-> "denied", remaining |-> 0, reset_time |-> Head(w) + win, limit |-> cap]

\* StatusInfo reporting a reset time one window ahead also for an empty window
StatusInfoAlwaysAhead(w, now, cap, win) ==
    [kind |-> "status",
     remaining |-> IF cap - Len(w) > 0 THEN cap - Len(w) ELSE 0,
     reset_time |-> now + win,
     limit |-> cap]

\* the dict returned by get_rate_limit_info
StatusInfo(w, now, cap, win) ==
    [kind |-> "status",
     remaining |-> IF cap - Len(w) > 0 THEN cap - Len(w) ELSE 0,
     reset_time |-> IF w /= <<>> THEN now + win ELSE now,
     limit |-> cap]

\* AfterDecision recording the attempt whatever the decision
AfterDecisionAlways(w, now, cap) == Append(w, now)

\* the deque is_allowed leaves behind after its test
AfterDecision(w, now, cap) == IF UnderLimit(w, cap) THEN Append(w, now) ELSE w

\* ------------------------------------------------------------------ Init

NoRace == [key |-> "", now |-> 0, kind |-> "none", before |-> <<>>, rivals |-> {}]
NoDenial == 0 - 1

NoStatus == 0 - 1

\* the X-RateLimit-* headers of a response that has none
NoHeaders == [limit |-> "", remaining |-> "", reset |-> ""]

\* a worker that serves no HTTP request
NoHttp == [stage |-> "none", route |-> "none", info |-> NoResult, state |-> NoResult,
           raised |-> NoHeaders, status |-> 0, headers |-> NoHeaders, performed |-> FALSE]

\* the caller whose calls follow ScriptTimes, and the calls' clock values
ScriptThread == "t1"
ScriptTimes == <<0, 1, 2, 3, 61>>

\* RateLimiter(max_requests, window_seconds) with the arguments drawn from caps and wins
Construct(o, caps, wins) ==
    /\ observe = o
    /\ max_requests \in caps
    /\ window_seconds \in wins
    /\ requests = EmptyStore
    /\ lock = NoThread
    /\ clock = 0
    /\ pc = [t \in Threads |-> "idle"]
    /\ op = [t \in Threads |-> "none"]
    /\ client_id = [t \in Threads |-> ""]
    /\ current_time = [t \in Threads |-> 0]
    /\ result = [t \in Threads |-> NoResult]
    /\ snapshot = EmptyStore
    /\ waiting = {}
    /\ race = NoRace
    /\ last_denied = [k \in Keys |-> NoDenial]
    /\ admitted = [k \in Keys |-> [ts \in Times |-> 0]]
    /\ last_status = [k \in Keys |-> NoStatus]
    /\ pre_status = [k \in Keys |-> <<>>]
    /\ script = 0
    /\ http = [t \in Threads |-> NoHttp]

\* a limiter with at least one slot and a window of at least one second
Setup(o) == Construct(o, 1..MaxCapacity, 1..MaxWindow)

Init == Setup("none")
InitRace == Setup("race")
InitRetry == Setup("denial")
InitLog == Setup("admitted")

\* --------------------------------------------------------------- actions

\* client_key with every identity mapped to the key of the empty identity
client_key_shared(t) == _get_client_key("")

\* the local client_key of a running call
client_key(t) == _get_client_key(client_id[t])

\* time.time() moves on
Tick ==
    /\ clock < MaxTime
    /\ clock' = clock + 1
    /\ UNCHANGED <<config, requests, lock, pc, locals, result, history, last_denied, admitted,
                 notes, http>>

\* entry of is_allowed / get_rate_limit_info: the two assignments before `with self.lock`
Call(t, o, id) ==
    /\ pc[t] = "idle"
    /\ http[t].stage = "none"
    /\ pc' = [pc EXCEPT ![t] = "start"]
    /\ op' = [op EXCEPT ![t] = o]
    /\ client_id' = [client_id EXCEPT ![t] = id]
    /\ current_time' = [current_time EXCEPT ![t] = clock]
    /\ http' = IF observe = "api"
               THEN [http EXCEPT ![t] = [NoHttp EXCEPT !.stage = "dependency", !.route = o]]
               ELSE http
    /\ UNCHANGED <<config, requests, lock, clock, result, history, last_denied, admitted,
                   notes>>

\* Acquire entering the block whether or not the lock is free
AcquireUnguarded(t) ==
    /\ pc[t] = "start"
    /\ lock' = t
    /\ pc' = [pc EXCEPT ![t] = "clean"]
    /\ snapshot' = requests
    /\ waiting' = {u \in Threads \ {t} : pc[u] = "start"}
    /\ UNCHANGED <<config, requests, clock, locals, result, race, last_denied, admitted,
                   notes, http>>

\* `with self.lock:` entered
Acquire(t) ==
    /\ pc[t] = "start"
    /\ lock = NoThread
    /\ lock' = t
    /\ pc' = [pc EXCEPT ![t] = "clean"]
    /\ snapshot' = requests
    /\ waiting' = {u \in Threads \ {t} : pc[u] = "start"}
    /\ UNCHANGED <<config, requests, clock, locals, result, race, last_denied, admitted,
                 notes, http>>

\* `if client_key in self.requests` and the while condition of _clean_old_requests
MustPop(t) ==
    /\ client_key(t) \in DOMAIN requests
    /\ StillStale(requests[client_key(t)], current_time[t], window_seconds)

\* the store with the last entry of k's window popped and k deleted with it
DropEmptied(store, k) ==
    IF Len(store[k]) = 1
    THEN [j \in DOMAIN store \ {k} |-> store[j]]
    ELSE [store EXCEPT ![k] = Tail(@)]

\* CleanPop deleting a key whose window it empties
CleanPopDropping(t) ==
    /\ pc[t] = "clean"
    /\ MustPop(t)
    /\ requests' = DropEmptied(requests, client_key(t))
    /\ UNCHANGED <<config, lock, clock, pc, locals, result, history, last_denied, admitted,
                   notes, http>>

\* one iteration of the while loop of _clean_old_requests: popleft()
CleanPop(t) ==
    /\ pc[t] = "clean"
    /\ MustPop(t)
    /\ requests' = [requests EXCEPT ![client_key(t)] = Tail(@)]
    /\ UNCHANGED <<config, lock, clock, pc, locals, result, history, last_denied, admitted,
                 notes, http>>

\* _clean_old_requests has returned; the if/else of is_allowed, up to its return value
Decide(t) ==
    /\ pc[t] = "clean"
    /\ ~MustPop(t)
    /\ op[t] = "admit"
    /\ LET k     == client_key(t)
           now   == current_time[t]
           store == GetItem(requests, k)
           w     == AfterDecision(store[k], now, max_requests)
       IN /\ requests' = [store EXCEPT ![k] = w]
          /\ IF UnderLimit(store[k], max_requests)
             THEN /\ result' = [result EXCEPT ![t] =
                                  AllowedInfo(w, now, max_requests, window_seconds)]
                  /\ admitted' = IF observe = "admitted"
                                 THEN [admitted EXCEPT ![k][now] = @ + 1]
                                 ELSE admitted
             ELSE /\ result' = [result EXCEPT ![t] =
                                  DeniedInfo(w, max_requests, window_seconds)]
                  /\ UNCHANGED admitted
    /\ pc' = [pc EXCEPT ![t] = "release"]
    /\ UNCHANGED <<config, lock, clock, locals, history, last_denied, notes, http>>

\* Report recording the query in the window, as if it were a request
ReportCounting(t) ==
    /\ pc[t] = "clean"
    /\ ~MustPop(t)
    /\ op[t] = "status"
    /\ LET k     == client_key(t)
           store == GetItem(requests, k)
       IN /\ requests' = [store EXCEPT ![k] = Append(@, current_time[t])]
          /\ result' = [result EXCEPT ![t] =
                          StatusInfo(store[k], current_time[t], max_requests, window_seconds)]
    /\ pc' = [pc EXCEPT ![t] = "release"]
    /\ UNCHANGED <<config, lock, clock, locals, history, last_denied, admitted, notes, http>>

\* _clean_old_requests has returned; the return expression of get_rate_limit_info
Report(t) ==
    /\ pc[t] = "clean"
    /\ ~MustPop(t)
    /\ op[t] = "status"
    /\ LET k     == client_key(t)
           store == GetItem(requests, k)
       IN /\ requests' = store
          /\ result' = [result EXCEPT ![t] =
                          StatusInfo(store[k], current_time[t], max_requests, window_seconds)]
    /\ pc' = [pc EXCEPT ![t] = "release"]
    /\ UNCHANGED <<config, lock, clock, locals, history, last_denied, admitted, notes, http>>

\* Release returning with the lock still held
ReleaseKeeping(t) ==
    /\ pc[t] = "release"
    /\ lock = t
    /\ pc' = [pc EXCEPT ![t] = "idle"]
    /\ op' = [op EXCEPT ![t] = "none"]
    /\ client_id' = [client_id EXCEPT ![t] = ""]
    /\ current_time' = [current_time EXCEPT ![t] = 0]
    /\ result' = [result EXCEPT ![t] = NoResult]
    /\ UNCHANGED <<config, requests, clock, lock, history, last_denied, admitted, notes, http>>

\* leaving the `with` block: the lock is released, the call returns and its locals die
Release(t) ==
    /\ pc[t] = "release"
    /\ lock = t
    /\ lock' = NoThread
    /\ pc' = [pc EXCEPT ![t] = "idle"]
    /\ op' = [op EXCEPT ![t] = "none"]
    /\ client_id' = [client_id EXCEPT ![t] = ""]
    /\ current_time' = [current_time EXCEPT ![t] = 0]
    /\ result' = [result EXCEPT ![t] = NoResult]
    /\ last_denied' = IF observe = "denial" /\ op[t] = "admit"
                      THEN [last_denied EXCEPT ![client_key(t)] =
                              IF result[t].kind = "denied" THEN result[t].reset_time ELSE NoDenial]
                      ELSE last_denied
    /\ race' = LET rivals == {u \in waiting : op[u] = "admit" /\ client_key(u) = client_key(t)}
               IN IF observe = "race" /\ op[t] = "admit" /\ rivals /= {}
                  THEN [key |-> client_key(t), now |-> current_time[t],
                        kind |-> result[t].kind,
                        before |-> Window(snapshot, client_key(t)), rivals |-> rivals]
                  ELSE NoRace
    /\ last_status' = IF observe = "status" \/ observe = "monotone"
                      THEN [last_status EXCEPT ![client_key(t)] =
                              IF op[t] = "status"
                              THEN result[t].remaining
                              ELSE IF observe = "status" \/ result[t].kind = "allowed"
                                   THEN NoStatus
                                   ELSE @]
                      ELSE last_status
    /\ pre_status' = IF observe = "quota" /\ op[t] = "admit"
                     THEN [pre_status EXCEPT ![client_key(t)] = Window(requests, client_key(t))]
                     ELSE pre_status
    /\ script' = IF observe = "script" /\ t = ScriptThread THEN script + 1 ELSE script
    /\ http' = IF observe = "api"
               THEN [http EXCEPT ![t].stage = "returned", ![t].info = result[t]]
               ELSE http
    /\ snapshot' = EmptyStore
    /\ waiting' = {}
    /\ UNCHANGED <<config, requests, clock, admitted>>

Next ==
    \/ Tick
    \/ \E t \in Threads, o \in Ops, id \in ClientIds : Call(t, o, id)
    \/ \E t \in Threads : Acquire(t)
    \/ \E t \in Threads : CleanPop(t)
    \/ \E t \in Threads : Decide(t)
    \/ \E t \in Threads : Report(t)
    \/ \E t \in Threads : Release(t)

Spec == Init /\ [][Next]_vars
SpecRace == InitRace /\ [][Next]_vars
SpecRetry == InitRetry /\ [][Next]_vars
SpecLog == InitLog /\ [][Next]_vars

\* ---------------------------------------------- Status between two Admits
InitIdem == Setup("status")
SpecIdem == InitIdem /\ [][Next]_vars

InitMono == Setup("monotone")
SpecMono == InitMono /\ [][Next]_vars

InitQuota == Setup("quota")
SpecQuota == InitQuota /\ [][Next]_vars

\* ------------------------------------------------------- fair scheduling
\* a running thread takes each of its steps in the end; a thread that stands
\* before the lock gets it in the end if the lock is free again and again
Fairness ==
    \A t \in Threads :
        /\ SF_vars(Acquire(t))
        /\ WF_vars(CleanPop(t))
        /\ WF_vars(Decide(t))
        /\ WF_vars(Report(t))
        /\ WF_vars(Release(t))

\* a limiter of one slot with the shortest window
InitFair == Construct("none", {1}, {1})
SpecFair == InitFair /\ [][Next]_vars /\ Fairness

\* Call with op "admit" is the entry of rate_limit_dependency on a governed
\* endpoint, Call with op "status" the entry of GET /api/v1/rate-limit/info;
\* Release hands the limiter's return value back to them.
InitApi == Construct("api", 1..MaxCapacity, {1})

\* the three X-RateLimit-* header values built from a rate_limit_info dict
RateLimitHeaders(info) ==
    [limit |-> ToString(info.limit), remaining |-> ToString(info.remaining),
     reset |-> ToString(info.reset_time)]

\* the statuses a governed endpoint answers with once it runs
EndpointStatuses == {200, 404, 500}

\* rate_limit_dependency after is_allowed has returned
rate_limit_dependency(t) ==
    /\ http[t].stage = "returned"
    /\ http[t].route = "admit"
    /\ http[t].info.kind \in {"allowed", "denied"}
    /\ http' = IF http[t].info.kind = "denied"
               THEN [http EXCEPT ![t].stage = "raised",
                                 ![t].raised = RateLimitHeaders(http[t].info)]
               ELSE [http EXCEPT ![t].stage = "endpoint", ![t].state = http[t].info]
    /\ UNCHANGED <<config, requests, lock, clock, pc, locals, result, history, last_denied,
                   admitted, notes>>

\* the body of a governed endpoint: its operation and its response or HTTPException
Endpoint(t, status) ==
    /\ http[t].stage = "endpoint"
    /\ http' = [http EXCEPT ![t].stage = "responded", ![t].performed = TRUE,
                            ![t].status = status]
    /\ UNCHANGED <<config, requests, lock, clock, pc, locals, result, history, last_denied,
                   admitted, notes>>

\* GET /api/v1/rate-limit/info after get_rate_limit_info has returned
get_rate_limit_info(t) ==
    /\ http[t].stage = "returned"
    /\ http[t].route = "status"
    /\ http' = [http EXCEPT ![t].stage = "responded", ![t].status = 200]
    /\ UNCHANGED <<config, requests, lock, clock, pc, locals, result, history, last_denied,
                   admitted, notes>>

\* the exception handler of status 429: a JSONResponse built without exc.headers
rate_limit_handler(t) ==
    /\ http[t].stage = "raised"
    /\ http' = [http EXCEPT ![t].stage = "responded", ![t].status = 429,
                            ![t].headers = NoHeaders]
    /\ UNCHANGED <<config, requests, lock, clock, pc, locals, result, history, last_denied,
                   admitted, notes>>

\* the middleware, after call_next: headers from request.state.rate_limit_info if set
add_rate_limit_headers(t) ==
    /\ http[t].stage = "responded"
    /\ http' = [http EXCEPT ![t].stage = "sent",
                            ![t].headers = IF http[t].state /= NoResult
                                           THEN RateLimitHeaders(http[t].state)
                                           ELSE @]
    /\ UNCHANGED <<config, requests, lock, clock, pc, locals, result, history, last_denied,
                   admitted, notes>>

\* the response has gone out; the worker is free for the next request
Deliver(t) ==
    /\ http[t].stage = "sent"
    /\ http' = [http EXCEPT ![t] = NoHttp]
    /\ UNCHANGED <<config, requests, lock, clock, pc, locals, result, history, last_denied,
                   admitted, notes>>

NextApi ==
    \/ Next
    \/ \E t \in Threads : rate_limit_dependency(t)
    \/ \E t \in Threads, status \in EndpointStatuses : Endpoint(t, status)
    \/ \E t \in Threads : get_rate_limit_info(t)
    \/ \E t \in Threads : rate_limit_handler(t)
    \/ \E t \in Threads : add_rate_limit_headers(t)
    \/ \E t \in Threads : Deliver(t)

SpecApi == InitApi /\ [][NextApi]_vars

\* ------------------------------------------- one caller following a script
\* RateLimiter(max_requests=3, window_seconds=60)
InitScenario == Construct("script", {3}, {60})

\* time.time() reaches the clock value of the scripted caller's next call
ScriptTick ==
    /\ script >= 1
    /\ script < Len(ScriptTimes)
    /\ clock = ScriptTimes[script]
    /\ clock' = ScriptTimes[script + 1]
    /\ UNCHANGED <<config, requests, lock, pc, locals, result, history, last_denied, admitted,
                   notes, http>>

\* the scripted caller's next is_allowed("c1"), made once its previous call has returned
ScriptCall ==
    /\ script < Len(ScriptTimes)
    /\ clock = ScriptTimes[script + 1]
    /\ Call(ScriptThread, "admit", "c1")

\* calls of the other callers, for another identity
OtherCall ==
    \E t \in Threads \ {ScriptThread}, o \in Ops : Call(t, o, "")

NextScenario ==
    \/ ScriptTick
    \/ ScriptCall
    \/ OtherCall
    \/ \E t \in Threads : Acquire(t)
    \/ \E t \in Threads : CleanPop(t)
    \/ \E t \in Threads : Decide(t)
    \/ \E t \in Threads : Report(t)
    \/ \E t \in Threads : Release(t)

SpecScenario == InitScenario /\ [][NextScenario]_vars

\* ------------------------------------------ any arguments of the constructor
\* the smallest argument tried: __init__ stores whatever it is given
MinConfig == 0 - 1

\* time.time() is the wall clock: it returns less than before when the clock is set back
ClockBack ==
    /\ clock > 0
    /\ clock' \in 0..(clock - 1)
    /\ UNCHANGED <<config, requests, lock, pc, locals, result, history, last_denied, admitted,
                   notes, http>>

NextJump ==
    \/ Next
    \/ ClockBack

\* the largest capacity with the shortest window
InitJump == Construct("none", {MaxCapacity}, {1})
SpecJump == InitJump /\ [][NextJump]_vars

InitAny == Construct("none", MinConfig..MaxCapacity, MinConfig..MaxWindow)
SpecAny == InitAny /\ [][Next]_vars

\* ------------------------------------------------- vocabulary of the claims

Range(w) == {w[i] : i \in 1..Len(w)}

\* the smallest timestamp of a non-empty window
SeqMin(w) == CHOOSE m \in Range(w) : \A e \in Range(w) : m <= e

RECURSIVE SumCounts(_, _)
SumCounts(f, S) ==
    IF S = {} THEN 0
    ELSE LET x == CHOOSE y \in S : TRUE IN f[x] + SumCounts(f, S \ {x})

\* thread t has computed its return value and still holds the lock
Returning(t) == pc[t] = "release"
Allowed(t) == Returning(t) /\ op[t] = "admit" /\ result[t].kind = "allowed"
Denied(t) == Returning(t) /\ op[t] = "admit" /\ result[t].kind = "denied"

\* the window of t's key when t entered the lock, and now
Before(t) == Window(snapshot, client_key(t))
After(t) == Window(requests, client_key(t))

\* every entry of w is inside the window that ends at now
Live(w, now) == \A e \in Range(w) : e >= now - window_seconds

\* ------------------------------------------------------------------- C1
\* C1 (bounded admission): for every key and every interval of length
\* window_seconds, at most max_requests allowed admissions carry a timestamp
\* inside the interval.
BoundedAdmission ==
    \A k \in Keys : \A s \in Times :
        SumCounts(admitted[k], {ts \in Times : s <= ts /\ ts <= s + window_seconds})
            <= max_requests

\* ------------------------------------------------------------------- C2
\* thread b returns from an admit that stood before the lock while the admit
\* just before it in lock order, for the same key, found max_requests - 1
\* entries, all live at both callers' clock readings
LastSlotRaced(b) ==
    /\ Returning(b)
    /\ op[b] = "admit"
    /\ b \in race.rivals
    /\ Len(race.before) = max_requests - 1
    /\ Live(race.before, race.now)
    /\ Live(race.before, current_time[b])

\* C2 as stated (last-slot race): of two admits racing for the last slot, the
\* one that took the lock first is allowed and the other is denied.
LastSlotRaceAsStated ==
    \A b \in Threads :
        LastSlotRaced(b) => race.kind = "allowed" /\ result[b].kind = "denied"

\* C2 amended: the same, when the winner's own timestamp is still live at the
\* loser's clock reading.
LastSlotRace ==
    \A b \in Threads :
        LastSlotRaced(b) /\ race.now >= current_time[b] - window_seconds
            => race.kind = "allowed" /\ result[b].kind = "denied"

\* a decided last-slot race in which the two callers read different clock values
LastSlotRaceWitness ==
    \E b \in Threads :
        /\ LastSlotRaced(b)
        /\ race.now >= current_time[b] - window_seconds
        /\ race.now /= current_time[b]
        /\ race.kind = "allowed"
        /\ result[b].kind = "denied"

\* ------------------------------------------------------------------- C3
\* C3 (capacity invariant): every key's window holds at most max_requests
\* timestamps.
CapacityInvariant ==
    \A k \in DOMAIN requests : Len(requests[k]) <= max_requests

\* an admit bounced off a window that holds exactly max_requests entries
CapacityWitness ==
    \E t \in Threads : Denied(t) /\ Len(After(t)) = max_requests

\* ------------------------------------------------------------------- C4
\* C4 (ordering invariant): every window is non-decreasing in insertion order.
WindowsOrdered ==
    \A k \in DOMAIN requests :
        \A i, j \in 1..Len(requests[k]) : i < j => requests[k][i] <= requests[k][j]

\* ------------------------------------------------------------------- C5
\* C5 (no stale entries): when a call for a key has finished its work with
\* clock value now, every retained timestamp of that key is > now - window_seconds.
NoStaleEntries ==
    \A t \in Threads :
        Returning(t) =>
            \A e \in Range(After(t)) : e > current_time[t] - window_seconds

\* ------------------------------------------------------------------- C6
\* C6 (slot release): an admit that finds its key at capacity with the oldest
\* admitted timestamp outside the window is allowed.
SlotRelease ==
    \A t \in Threads :
        /\ Returning(t)
        /\ op[t] = "admit"
        /\ Len(Before(t)) = max_requests
        /\ SeqMin(Before(t)) < current_time[t] - window_seconds
        => result[t].kind = "allowed"

\* ------------------------------------------------------------------- C7
\* C7 (retry-after accuracy): after a denial with reset_time r and no allowed
\* admission for the key since, an admit is allowed exactly when its clock
\* value is >= r.
RetryAfterAccurate ==
    \A t \in Threads :
        /\ Returning(t)
        /\ op[t] = "admit"
        /\ last_denied[client_key(t)] /= NoDenial
        => (result[t].kind = "allowed" <=> current_time[t] >= last_denied[client_key(t)])

\* ------------------------------------------------------------------- C8
\* C8 (denial result): a denial returns remaining 0, limit max_requests and
\* reset_time = (minimum timestamp of the key's window) + window_seconds.
DenialResult ==
    \A t \in Threads :
        Denied(t) =>
            /\ result[t].remaining = 0
            /\ result[t].limit = max_requests
            /\ result[t].reset_time = SeqMin(After(t)) + window_seconds

\* ------------------------------------------------------------------- C9
\* C9 (no mutation on denial): a denied admit leaves the whole store as it
\* found it: the same keys, each with the same window.
NoMutationOnDenial ==
    \A t \in Threads : Denied(t) => requests = snapshot

\* a denial while the store also holds a window for another key
NoMutationWitness ==
    \E t \in Threads :
        /\ Denied(t)
        /\ \E k \in DOMAIN requests : k /= client_key(t) /\ requests[k] /= <<>>

\* ------------------------------------------------------------------ C10
\* C10 (allowed result and conservation): an allowed admit appends exactly its
\* own clock value to the pruned window of its key, touches no other key, and
\* returns limit max_requests, reset_time now + window_seconds and
\* remaining = max_requests - len(window after the append).
AllowedResult ==
    \A t \in Threads :
        Allowed(t) =>
            /\ After(t) = Append(PruneFront(Before(t), current_time[t], window_seconds),
                                 current_time[t])
            /\ DOMAIN requests = DOMAIN snapshot \cup {client_key(t)}
            /\ \A k \in DOMAIN snapshot : k /= client_key(t) => requests[k] = snapshot[k]
            /\ result[t].limit = max_requests
            /\ result[t].reset_time = current_time[t] + window_seconds
            /\ result[t].remaining = max_requests - Len(After(t))
            /\ result[t].remaining + Len(After(t)) = max_requests

\* an allowed admit whose prune removed something and left something
AllowedWitness ==
    \E t \in Threads :
        /\ Allowed(t)
        /\ Len(After(t)) = 2
        /\ Len(Before(t)) = 2

\* ------------------------------------------------------------------ C11
\* thread t returns from a Status whose key had another Status, and no Admit,
\* just before it in lock order
StatusRepeated(t) ==
    /\ Returning(t)
    /\ op[t] = "status"
    /\ last_status[client_key(t)] /= NoStatus

\* C11 as stated (Status idempotence): consecutive Status calls for a key with
\* no Admit for it in between return identical remaining values, also when the
\* clock advances between the calls.
StatusIdempotentAsStated ==
    \A t \in Threads :
        StatusRepeated(t) => result[t].remaining = last_status[client_key(t)]

\* C11 amended: the later Status returns the remaining of the one before it
\* plus the number of entries its own prune removed, so the same value when
\* nothing expired in between.
StatusIdempotent ==
    \A t \in Threads :
        StatusRepeated(t) =>
            result[t].remaining =
                last_status[client_key(t)] + (Len(Before(t)) - Len(After(t)))

\* a repeated Status of a used window from which nothing has expired
StatusIdempotentWitness ==
    \E t \in Threads :
        /\ StatusRepeated(t)
        /\ Before(t) = After(t)
        /\ result[t].remaining < max_requests

\* ------------------------------------------------------------------ C12
\* what is_allowed returns for a window w found under the lock at clock value now
AdmitInfo(w, now) ==
    LET pruned == PruneFront(w, now, window_seconds)
        left   == AfterDecision(pruned, now, max_requests)
    IN IF UnderLimit(pruned, max_requests)
       THEN AllowedInfo(left, now, max_requests, window_seconds)
       ELSE DeniedInfo(left, max_requests, window_seconds)

\* the window is_allowed leaves behind for a window w found under the lock
AdmitWindow(w, now) ==
    AfterDecision(PruneFront(w, now, window_seconds), now, max_requests)

\* C12 (Status does not consume quota): an Admit returns the same result and
\* leaves the same window as it would have on the window the previous Admit for
\* its key left, whatever Status calls were executed in between.
StatusConsumesNothing ==
    \A t \in Threads :
        Returning(t) /\ op[t] = "admit" =>
            /\ result[t] = AdmitInfo(pre_status[client_key(t)], current_time[t])
            /\ After(t) = AdmitWindow(pre_status[client_key(t)], current_time[t])

\* ------------------------------------------------------------------ C13
Max0(n) == IF n > 0 THEN n ELSE 0

\* C13 (Status result): a Status leaves its key's window pruned at its own
\* clock value with nothing appended, and returns limit max_requests,
\* remaining = max(0, max_requests - len(pruned window)) and reset_time =
\* now + window_seconds when the pruned window is non-empty, now otherwise.
StatusResult ==
    \A t \in Threads :
        Returning(t) /\ op[t] = "status" =>
            /\ After(t) = PruneFront(Before(t), current_time[t], window_seconds)
            /\ result[t].limit = max_requests
            /\ result[t].remaining = Max0(max_requests - Len(After(t)))
            /\ result[t].reset_time = IF After(t) /= <<>>
                                      THEN current_time[t] + window_seconds
                                      ELSE current_time[t]

\* a Status whose prune removed an entry and left one
StatusResultWitness ==
    \E t \in Threads :
        /\ Returning(t)
        /\ op[t] = "status"
        /\ Len(Before(t)) = 2
        /\ Len(After(t)) = 1

\* a Status that found its window empty after the prune
StatusResultEmptyWitness ==
    \E t \in Threads :
        /\ Returning(t)
        /\ op[t] = "status"
        /\ Before(t) /= <<>>
        /\ After(t) = <<>>

\* ------------------------------------------------------------------ C14
\* the key that belongs to the identity thread t was called with
OwnKey(t) == _get_client_key(client_id[t])

\* C14 (key isolation): distinct identities have distinct keys; a call leaves
\* the window of every key other than its own identity's as it found it, and
\* its result is the one its own window and clock value determine, whatever
\* the windows of the other keys hold.
KeyIsolation ==
    /\ \A a, b \in ClientIds : a /= b => _get_client_key(a) /= _get_client_key(b)
    /\ \A t \in Threads :
           Returning(t) =>
               /\ \A k \in (DOMAIN requests \cup DOMAIN snapshot) \ {OwnKey(t)} :
                      /\ k \in DOMAIN requests
                      /\ k \in DOMAIN snapshot
                      /\ requests[k] = snapshot[k]
               /\ op[t] = "admit" =>
                      /\ result[t] = AdmitInfo(Window(snapshot, OwnKey(t)), current_time[t])
                      /\ Window(requests, OwnKey(t)) =
                             AdmitWindow(Window(snapshot, OwnKey(t)), current_time[t])
               /\ op[t] = "status" =>
                      result[t] = StatusInfo(PruneFront(Window(snapshot, OwnKey(t)),
                                                        current_time[t], window_seconds),
                                             current_time[t], max_requests, window_seconds)

\* a call for one key returns while another key's window is full
KeyIsolationWitness ==
    \E t \in Threads :
        /\ Allowed(t)
        /\ client_id[t] = "c1"
        /\ \E k \in DOMAIN requests :
               k /= OwnKey(t) /\ Len(requests[k]) = max_requests

\* ------------------------------------------------------------------ C15
\* C15 (lazy key creation): the store holds an entry only for keys that have
\* had at least one allowed admission.
LazyKeys ==
    \A k \in DOMAIN requests : \E ts \in Times : admitted[k][ts] > 0

\* ------------------------------------------------------------------ C16
\* C16 (no failure mode): every call returns a result value; none ends in the
\* IndexError of reading the front of an empty window.
NoFailure ==
    \A t \in Threads :
        Returning(t) => result[t].kind \in {"allowed", "denied", "status"}

\* ------------------------------------------------------------------ C17
\* C17 (fail-fast configuration): no call executes against a limiter whose
\* max_requests or window_seconds is <= 0.
FailFast ==
    \A t \in Threads :
        pc[t] /= "idle" => max_requests > 0 /\ window_seconds > 0

\* ------------------------------------------------------------------ C18
\* the entries of w that are stale at clock value now form a prefix of w
StaleIsPrefix(w, now) ==
    \A i, j \in 1..Len(w) :
        i < j /\ w[j] < now - window_seconds => w[i] < now - window_seconds

\* C18 (backward clock jump): with a clock that may return less than before,
\* no call fails, and in every state the entries of every window that are
\* stale at the current clock value form a prefix of it.
ClockJumpRobust ==
    /\ NoFailure
    /\ \A k \in DOMAIN requests : StaleIsPrefix(requests[k], clock)

\* ------------------------------------------------------------------ C19
\* the scripted caller returns from its n-th call
ScriptReturn(n) == Returning(ScriptThread) /\ script = n - 1

\* C19 (concrete scenario): with max_requests 3 and window_seconds 60 the
\* sequential admits of "c1" at 0, 1, 2 are allowed with remaining 2, 1, 0 and
\* limit 3, the one at 3 is denied with remaining 0 and reset_time 60, and the
\* one at 61 is allowed with remaining 0, only the entry 0 having been pruned.
ScenarioResults ==
    LET r == result[ScriptThread]
        w == After(ScriptThread)
    IN /\ ScriptReturn(1) => r.kind = "allowed" /\ r.remaining = 2 /\ r.limit = 3
       /\ ScriptReturn(2) => r.kind = "allowed" /\ r.remaining = 1 /\ r.limit = 3
       /\ ScriptReturn(3) => r.kind = "allowed" /\ r.remaining = 0 /\ r.limit = 3
       /\ ScriptReturn(4) => r.kind = "denied" /\ r.remaining = 0 /\ r.reset_time = 60
       /\ ScriptReturn(5) => r.kind = "allowed" /\ r.remaining = 0 /\ w = <<1, 2, 61>>

\* the scripted caller returns from its call at 61
ScenarioWitness ==
    /\ ScriptReturn(5)
    /\ current_time[ScriptThread] = 61
    /\ Before(ScriptThread) = <<0, 1, 2>>

\* ------------------------------------------------------------------ C20
\* the response of a request to a governed endpoint, as it leaves the middleware
Responding(t) == http[t].stage = "sent" /\ http[t].route = "admit"

\* C20 (API collaborator contract): a governed endpoint performs its operation
\* only after an allowing Admit; a denied request is answered 429 with the
\* operation not performed; and every response, denied or allowed, carries the
\* limit, remaining (0 on denial) and reset_time of its own Admit as
\* X-RateLimit-* headers.
ApiContract ==
    \A t \in Threads :
        /\ http[t].performed => http[t].info.kind = "allowed"
        /\ Responding(t) =>
               /\ http[t].info.kind = "denied" =>
                      /\ http[t].status = 429
                      /\ ~http[t].performed
                      /\ http[t].info.remaining = 0
               /\ http[t].headers = RateLimitHeaders(http[t].info)

\* ------------------------------------------------------------------ C21
\* a full scan of w that keeps the entries inside the window ending at now
FilterLive(w, now) == SelectSeq(w, LAMBDA e : e >= now - window_seconds)

\* C21 (prune equals filter): when the prune loop of a call has stopped, its
\* key's window equals the full scan of the window the call found, filtered by
\* t >= now - window_seconds.
PruneIsFilter ==
    \A t \in Threads :
        pc[t] = "clean" /\ ~MustPop(t) =>
            Window(requests, client_key(t)) = FilterLive(Before(t), current_time[t])

\* ------------------------------------------------------------------ C22
\* thread t is between acquiring and releasing self.lock
InGuard(t) == pc[t] \in {"clean", "release"}

\* w with its first n entries popped
Popped(w, n) == SubSeq(w, n + 1, Len(w))

\* C22 (mutual exclusion and atomicity): at most one caller is inside the
\* lock, and it is the lock's holder; while it is inside, the store differs
\* from the store it found only by its own steps: entries popped from the
\* front of its key's window while it prunes, and the complete effect of its
\* own call once it has decided.
MutualExclusion ==
    /\ \A t, u \in Threads : InGuard(t) /\ InGuard(u) => t = u
    /\ \A t \in Threads : InGuard(t) <=> lock = t
    /\ \A t \in Threads :
           InGuard(t) =>
               /\ \A k \in DOMAIN snapshot :
                      k /= client_key(t) => k \in DOMAIN requests /\ requests[k] = snapshot[k]
               /\ pc[t] = "clean" =>
                      /\ DOMAIN requests = DOMAIN snapshot
                      /\ \E n \in 0..Len(Before(t)) : After(t) = Popped(Before(t), n)
               /\ pc[t] = "release" =>
                      /\ DOMAIN requests = DOMAIN snapshot \cup {client_key(t)}
                      /\ After(t) = IF op[t] = "admit"
                                    THEN AdmitWindow(Before(t), current_time[t])
                                    ELSE PruneFront(Before(t), current_time[t], window_seconds)

\* a caller in the middle of its prune while another stands before the lock
\* with a call for the same key
MutualExclusionWitness ==
    \E t, u \in Threads :
        /\ pc[t] = "clean"
        /\ pc[u] = "start"
        /\ client_key(u) = client_key(t)
        /\ Len(After(t)) < Len(Before(t))
        /\ MustPop(t)

KeysOnlyGrow == [][DOMAIN requests \subseteq DOMAIN requests']_vars

\* a prune has emptied a window and its key is still in the store
KeysOnlyGrowWitness ==
    \E t \in Threads :
        /\ pc[t] = "clean"
        /\ Before(t) /= <<>>
        /\ client_key(t) \in DOMAIN requests
        /\ requests[client_key(t)] = <<>>

\* ------------------------------------------------------------------ C25
\* C25 (monotone quota reporting): with no allowed Admit for the key in
\* between, a Status never returns less remaining than the Status before it
\* in lock order.
StatusMonotone ==
    \A t \in Threads :
        StatusRepeated(t) => result[t].remaining >= last_status[client_key(t)]

\* a Status that returns more than the one before it, while an Admit for the
\* same key stands before the lock
StatusMonotoneWitness ==
    \E t, u \in Threads :
        /\ StatusRepeated(t)
        /\ result[t].remaining > last_status[client_key(t)]
        /\ pc[u] = "start"
        /\ op[u] = "admit"
        /\ client_key(u) = client_key(t)

\* ------------------------------------------------------------------ C26
\* what get_rate_limit_info returns for a window w found under the lock at now
ReportInfo(w, now) ==
    StatusInfo(PruneFront(w, now, window_seconds), now, max_requests, window_seconds)

\* Status and Admit agree on a window w at clock value now
Agree(w, now) ==
    /\ ReportInfo(w, now).remaining > 0 <=> AdmitInfo(w, now).kind = "allowed"
    /\ AdmitInfo(w, now).kind = "allowed" =>
           AdmitInfo(w, now).remaining = ReportInfo(w, now).remaining - 1
    /\ AdmitInfo(w, now).kind = "denied" <=>
           Len(PruneFront(w, now, window_seconds)) = max_requests

\* C26 (Status agrees with Admit): on every stored window and at every clock
\* value, Status returns remaining > 0 exactly when Admit would be allowed, the
\* allowed Admit's remaining is Status's minus 1, and Admit is denied exactly
\* when the pruned window holds max_requests entries; and every call that
\* returns has returned what these two functions give on the window it found.
StatusAgreesWithAdmit ==
    /\ \A k \in Keys : \A now \in Times : Agree(Window(requests, k), now)
    /\ \A t \in Threads :
           Returning(t) =>
               /\ Agree(Before(t), current_time[t])
               /\ result[t] = IF op[t] = "admit"
                              THEN AdmitInfo(Before(t), current_time[t])
                              ELSE ReportInfo(Before(t), current_time[t])

\* a Status returns remaining 0 on a full window from which its prune removed nothing
StatusAgreesWitness ==
    \E t \in Threads :
        /\ Returning(t)
        /\ op[t] = "status"
        /\ result[t].remaining = 0
        /\ Len(Before(t)) = max_requests
        /\ AdmitInfo(Before(t), current_time[t]).kind = "denied"

\* ------------------------------------------------------------------ C27
\* C27 (denial reset_time is a usable future instant): a denied Admit with
\* clock value now returns now <= reset_time <= now + window_seconds.
DenialResetInRange ==
    \A t \in Threads :
        Denied(t) =>
            /\ current_time[t] <= result[t].reset_time
            /\ result[t].reset_time <= current_time[t] + window_seconds

====
